---- MODULE Spec2Model ----
(***************************************************************************)
(* Model of src/format.py, the Streamlit inventory formatter: one script   *)
(* run per uploaded spreadsheet.  The run reads the table, reconciles the  *)
(* column names with difflib, corrects the rows and renders the sheet.     *)
(*                                                                         *)
(* Text whose characters the code inspects (column names, product codes,   *)
(* currency text) is a sequence of one-character strings.  Amounts of      *)
(* money are integers: costs in thousandths of a dollar (mills), formatted *)
(* currency in hundredths (cents).                                         *)
(***************************************************************************)
EXTENDS Integers, Sequences, FiniteSets, TLC

VARIABLES
    pc,           \* position of the script run
    uploaded,     \* the uploaded table as the operator filled it in
    columns,      \* df.columns
    data,         \* df rows, each a tuple aligned with columns
    col_map,      \* canonical name -> matched raw name
    notes_col,    \* notes accumulated by the correction loop
    total_col,    \* totals accumulated by the correction loop
    row_num,      \* number of rows the rendering loop has written
    sheet,        \* worksheet "Formatted": sheet row -> tuple of cells
    table,        \* the range add_table registered
    message,      \* what st.error displayed: "none", "missing", "processing"
    download      \* whether the download button was offered

vars == <<pc, uploaded, columns, data, col_map, notes_col, total_col,
          row_num, sheet, table, message, download>>

----------------------------------------------------------------------------
(* Column names *)

Warehouse == <<"W", "a", "r", "e", "h", "o", "u", "s", "e">>
Code == <<"C", "o", "d", "e">>
EngName == <<"E", "n", "g", " ", "N", "a", "m", "e">>
Quantity == <<"Q", "u", "a", "n", "t", "i", "t", "y">>
Cost == <<"C", "o", "s", "t">>
USDEach == <<"U", "S", "D", " ", "E", "a", "c", "h">>
OriginalCost == <<"O", "r", "i", "g", "i", "n", "a", "l", " ", "C", "o", "s", "t">>
TotalUSDEach == <<"T", "o", "t", "a", "l", " ", "U", "S", "D", " ", "E", "a", "c", "h">>
Notes == <<"N", "o", "t", "e", "s", " ", "(", "E", "x", ".", " ", "R", "a", "t", "e", " ", "1", ".", "1", "2", ")">>

expected_cols == <<Warehouse, Code, EngName, Quantity, Cost>>

final_cols == <<Warehouse, Code, EngName, Quantity, USDEach, TotalUSDEach, Notes>>

(* Code points of the characters column names are written with; Python     *)
(* orders strings by them.                                                 *)
Ord ==
    " " :> 32 @@ "$" :> 36 @@ "(" :> 40 @@ ")" :> 41 @@ "." :> 46 @@
    "0" :> 48 @@ "1" :> 49 @@ "2" :> 50 @@ "3" :> 51 @@ "6" :> 54 @@
    "8" :> 56 @@ "9" :> 57 @@ "A" :> 65 @@ "C" :> 67 @@ "D" :> 68 @@
    "E" :> 69 @@ "N" :> 78 @@ "O" :> 79 @@ "Q" :> 81 @@ "R" :> 82 @@
    "S" :> 83 @@ "T" :> 84 @@ "U" :> 85 @@ "V" :> 86 @@ "W" :> 87 @@
    "a" :> 97 @@ "c" :> 99 @@ "d" :> 100 @@ "e" :> 101 @@ "g" :> 103 @@
    "h" :> 104 @@ "i" :> 105 @@ "k" :> 107 @@ "l" :> 108 @@ "m" :> 109 @@
    "n" :> 110 @@ "o" :> 111 @@ "r" :> 114 @@ "s" :> 115 @@ "t" :> 116 @@
    "u" :> 117 @@ "w" :> 119 @@ "x" :> 120 @@ "y" :> 121

----------------------------------------------------------------------------
(* str.strip(): leading and trailing blanks removed *)

RECURSIVE lstrip(_)
lstrip(s) ==
    IF s # <<>> /\ Head(s) = " " THEN lstrip(Tail(s)) ELSE s

RECURSIVE rstrip(_)
rstrip(s) ==
    IF s # <<>> /\ s[Len(s)] = " " THEN rstrip(SubSeq(s, 1, Len(s) - 1)) ELSE s

strip(s) == rstrip(lstrip(s))

(* Python's order on strings: a < b *)
RECURSIVE str_lt(_, _)
str_lt(a, b) ==
    IF b = <<>> THEN FALSE
    ELSE IF a = <<>> THEN TRUE
    ELSE IF Head(a) # Head(b) THEN Ord[Head(a)] < Ord[Head(b)]
    ELSE str_lt(Tail(a), Tail(b))

----------------------------------------------------------------------------
(* difflib.SequenceMatcher, as get_close_matches uses it: no junk, and no  *)
(* autojunk below 200 characters.                                          *)

(* length of the common run of a and b that starts at a[i], b[j] *)
RECURSIVE run_len(_, _, _, _)
run_len(a, b, i, j) ==
    IF i > Len(a) \/ j > Len(b) THEN 0
    ELSE IF a[i] # b[j] THEN 0
    ELSE 1 + run_len(a, b, i + 1, j + 1)

(* <<i, j, k>>: the longest common block, the earliest in a, then in b *)
find_longest_match(a, b) ==
    LET starts == (1..Len(a)) \X (1..Len(b))
        sized == {<<run_len(a, b, p[1], p[2]), p[1], p[2]>> : p \in starts}
        bestsize == CHOOSE k \in {s[1] : s \in sized} :
                        \A s \in sized : s[1] <= k
        longest == {s \in sized : s[1] = bestsize}
        best == CHOOSE s \in longest : \A q \in longest :
                    s[2] < q[2] \/ (s[2] = q[2] /\ s[3] <= q[3])
    IN  IF bestsize = 0 THEN <<1, 1, 0>> ELSE <<best[2], best[3], best[1]>>

(* total size of get_matching_blocks(): the longest block, then the same   *)
(* to its left and to its right                                            *)
RECURSIVE matches(_, _)
matches(a, b) ==
    IF a = <<>> \/ b = <<>> THEN 0
    ELSE LET m == find_longest_match(a, b)
             i == m[1]
             j == m[2]
             k == m[3]
         IN  IF k = 0 THEN 0
             ELSE k + matches(SubSeq(a, 1, i - 1), SubSeq(b, 1, j - 1))
                    + matches(SubSeq(a, i + k, Len(a)), SubSeq(b, j + k, Len(b)))

(* ratio() = 2.0 * matches / (len(a) + len(b)), kept as <<numerator,       *)
(* denominator>>; 1.0 for two empty strings                                *)
ratio(a, b) ==
    IF Len(a) + Len(b) = 0 THEN <<1, 1>>
    ELSE <<2 * matches(a, b), Len(a) + Len(b)>>

cutoff_num == 6
cutoff_den == 10

ratio_ge_cutoff(r) == r[1] * cutoff_den >= cutoff_num * r[2]

(* get_close_matches(word, possibilities, n=1, cutoff=0.6): the (score,    *)
(* candidate) pairs scoring at least the cutoff, and the largest of them   *)
pair_ge(p, q) ==
    \/ p[1][1] * q[1][2] > q[1][1] * p[1][2]
    \/ p[1][1] * q[1][2] = q[1][1] * p[1][2] /\ (p[2] = q[2] \/ str_lt(q[2], p[2]))

get_close_matches(word, possibilities) ==
    LET scored == {<<ratio(x, word), x>> : x \in possibilities}
        result == {p \in scored : ratio_ge_cutoff(p[1])}
    IN  IF result = {} THEN <<>>
        ELSE <<(CHOOSE p \in result : \A q \in result : pair_ge(p, q))[2]>>

Range(s) == {s[k] : k \in 1..Len(s)}

----------------------------------------------------------------------------
(* Cell values.  A numeric cell holds mills (cost) or a count (quantity);  *)
(* a blank numeric cell reads as NaN; a text cell in a numeric column      *)
(* stays text.                                                             *)

Num(v) == [t |-> "num", v |-> v]
NaN == [t |-> "nan"]
Text(s) == [t |-> "str", s |-> s]

(* float(x) succeeds on numbers and NaN and raises ValueError on text that *)
(* is not a number                                                         *)
float_ok(c) == c.t \in {"num", "nan"}

----------------------------------------------------------------------------
(* Constants of the script *)

special_warehouses ==
    {"DONA - RGA Warehouse", "DONA - Scrap Warehouse", "NOT FOR SALE", "INVOICED"}

code_029813261 == <<"0", "2", "9", "8", "1", "3", "2", "6", "1">>
code_NA029813261 == <<"N", "A", "0", "2", "9", "8", "1", "3", "2", "6", "1">>
code_91V2NU000001 == <<"9", "1", "V", "2", "N", "U", "0", "0", "0", "0", "0", "1">>

adjust_codes == {code_029813261, code_NA029813261}

\* 1398.06 and 7752.42, in mills
price_029813 == 1398060
price_91v2 == 7752420

zero_text == <<"$", "0", ".", "0", "0">>

----------------------------------------------------------------------------
(* f"${x:,.2f}": two decimals, thousands separators.  A cost whose third   *)
(* decimal is 5 is taken to be a multiple of 0.125, which a float holds    *)
(* exactly, so that the tie goes to the even cent.                         *)

Digit == <<"0", "1", "2", "3", "4", "5", "6", "7", "8", "9">>

RECURSIVE digits(_)
digits(n) ==
    IF n < 10 THEN <<Digit[n + 1]>>
    ELSE digits(n \div 10) \o <<Digit[(n % 10) + 1]>>

pad2(n) == <<Digit[(n \div 10) + 1], Digit[(n % 10) + 1]>>

pad3(n) == <<Digit[(n \div 100) + 1]>> \o pad2(n % 100)

RECURSIVE grouped(_)
grouped(n) ==
    IF n < 1000 THEN digits(n)
    ELSE grouped(n \div 1000) \o <<",">> \o pad3(n % 1000)

round_cents(mills) ==
    LET q == mills \div 10
        r == mills % 10
    IN  IF r > 5 \/ (r = 5 /\ q % 2 = 1) THEN q + 1 ELSE q

currency(mills) ==
    LET c == round_cents(mills)
    IN  <<"$">> \o grouped(c \div 100) \o <<".">> \o pad2(c % 100)

\* f"${float(x):,.2f}" of a cell that float() accepts
money(c) == IF c.t = "nan" THEN <<"$", "n", "a", "n">> ELSE currency(c.v)

----------------------------------------------------------------------------
(* The DataFrame: columns, a tuple of names, and rows aligned with it.     *)
(* Column names are taken to be distinct after stripping.                  *)

\* df.columns.get_loc(name), from 1
get_loc(cols, name) == CHOOSE j \in 1..Len(cols) : cols[j] = name

\* row[name]
cell(cols, row, name) == row[get_loc(cols, name)]

\* df.rename(columns=mapper): a column whose name is a key takes the value
rename(cols, mapper) ==
    [j \in 1..Len(cols) |->
        IF cols[j] \in DOMAIN mapper THEN mapper[cols[j]] ELSE cols[j]]

\* df[names] raises KeyError unless every name is a column
has_columns(cols, names) == \A k \in 1..Len(names) : names[k] \in Range(cols)

\* the rows of df[names]
take(cols, rows, names) ==
    [r \in 1..Len(rows) |->
        [k \in 1..Len(names) |-> rows[r][get_loc(cols, names[k])]]]

\* df[name] = values: a column that exists is overwritten, a new one appended
set_column(cols, rows, name, values) ==
    IF name \in Range(cols)
    THEN [r \in 1..Len(rows) |->
             [rows[r] EXCEPT ![get_loc(cols, name)] = values[r]]]
    ELSE [r \in 1..Len(rows) |-> Append(rows[r], values[r])]

add_column(cols, name) == IF name \in Range(cols) THEN cols ELSE Append(cols, name)

----------------------------------------------------------------------------
(* Column reconciliation, lines 21-37 *)

stripped(cols) == [j \in 1..Len(cols) |-> strip(cols[j])]

\* lines 28-34: one entry per expected column that has a close match
build_col_map(cols) ==
    LET found == {<<c, get_close_matches(c, Range(cols))>> : c \in Range(expected_cols)}
        matched == {f \in found : f[2] # <<>>}
    IN  [c \in {f[1] : f \in matched} |-> (CHOOSE f \in matched : f[1] = c)[2][1]]

\* variant: stop only when no expected column was matched at all
missing_columns_none(m) == Cardinality(DOMAIN m) = 0

\* line 35
missing_columns(m) == Cardinality(DOMAIN m) # Len(expected_cols)

----------------------------------------------------------------------------
(* Row correction, lines 54-83 *)

\* line 54 and line 77: membership of the code as it stands
is_adjust_code(code) == code \in adjust_codes

\* variant: the code compared as it stands, as line 54 does
is_91v2_code_unstripped(code) == code = code_91V2NU000001

\* line 55 and line 80: the stripped code
is_91v2_code(code) == strip(code) = code_91V2NU000001

\* variant: the mask of line 54 inverted
updated_cost_inverted(code, usd_each) ==
    IF strip(code) = code_91V2NU000001 THEN Num(price_91v2)
    ELSE IF code \notin adjust_codes THEN Num(price_029813)
    ELSE usd_each

\* lines 54-55: the unit cost after the overrides
updated_cost(code, usd_each) ==
    IF is_91v2_code(code) THEN Num(price_91v2)
    ELSE IF is_adjust_code(code) THEN Num(price_029813)
    ELSE usd_each

\* lines 69-73: "$0.00" for a special warehouse, else "" for the formula
total_text(warehouse) ==
    IF warehouse \in special_warehouses THEN zero_text ELSE <<>>

note_previously == "Compiere previously showed "
note_showing == "Compiere is showing a cost of "
note_see_po == "; See DONA-PO-10001758"

\* lines 76-82: the note, as the pieces the f-string joins; "" is <<>>
note_text(code, orig_cost) ==
    IF is_adjust_code(code)
    THEN <<note_previously, money(orig_cost)>>
    ELSE IF is_91v2_code(code)
    THEN <<note_showing, money(orig_cost), note_see_po>>
    ELSE <<>>

\* line 66 raises on a unit cost that is no number, lines 78 and 81 on an
\* original cost that is no number
row_raises(code, usd_each, orig_cost) ==
    \/ ~float_ok(usd_each)
    \/ (is_adjust_code(code) \/ is_91v2_code(code)) /\ ~float_ok(orig_cost)

----------------------------------------------------------------------------
(* Rendering, lines 95-138.  A sheet row is a tuple of cells; sheet[1] is  *)
(* the header row, so xlsxwriter's row r is sheet[r + 1].                  *)

string_cell(v, fmt) == [t |-> "string", v |-> v, fmt |-> fmt]
number_cell(v, fmt) == [t |-> "number", v |-> v, fmt |-> fmt]
formula_cell(v, fmt) == [t |-> "formula", v |-> v, fmt |-> fmt]
blank_cell == [t |-> "blank", v |-> <<>>, fmt |-> "none"]

\* line 97, df.to_excel: numbers as number cells, NaN as an empty cell,
\* everything else as text
excel_cell(name, v) ==
    IF name \in {Quantity, USDEach}
    THEN IF v.t = "num" THEN number_cell(v.v, "none")
         ELSE IF v.t = "nan" THEN blank_cell
         ELSE string_cell(v.s, "none")
    ELSE string_cell(v, "none")

to_excel(cols, rows) ==
    [r \in 1..Len(rows) |->
        [k \in 1..Len(cols) |-> excel_cell(cols[k], rows[r][k])]]

\* lines 103-104
header_row(cols) == [k \in 1..Len(cols) |-> string_cell(cols[k], "none")]

Letters == <<"A", "B", "C", "D", "E", "F", "G", "H", "I">>

\* chr(ord("A") + k)
letter(k) == Letters[k + 1]

\* variant: the formula names xlsxwriter's row, not the sheet's
t_formula_row0(qty_col, usd_col, excel_row) ==
    <<"=", letter(qty_col), excel_row, "*", letter(usd_col), excel_row>>

\* lines 127-129: f"={q_col_letter}{excel_row+1}*{u_col_letter}{excel_row+1}"
t_formula(qty_col, usd_col, excel_row) ==
    <<"=", letter(qty_col), excel_row + 1, "*", letter(usd_col), excel_row + 1>>

\* variant: the formula written for every row
total_cell_formula(total, qty_col, usd_col, excel_row) ==
    [t |-> "formula",
     v |-> <<"=", letter(qty_col), excel_row + 1, "*", letter(usd_col), excel_row + 1>>,
     fmt |-> "currency"]

\* lines 123-130: the Total cell of xlsxwriter row excel_row
total_cell(total, qty_col, usd_col, excel_row) ==
    IF total = zero_text
    THEN string_cell(zero_text, "center")
    ELSE formula_cell(t_formula(qty_col, usd_col, excel_row), "currency")

\* line 119: write_number raises TypeError on NaN; line 120: float() raises
\* on a unit cost that is no number
render_raises(qty, usd_each) == qty.t # "num" \/ ~float_ok(usd_each)

\* lines 133-134: f"A1:{last_col}{len(df)+1}"
table_range(cols, rows) == <<"A", 1, letter(Len(cols) - 1), Len(rows) + 1>>

----------------------------------------------------------------------------
(* What the spreadsheet application makes of the formula line 129 writes:  *)
(* the product of the two cells it names.  A text cell holding currency    *)
(* text counts as the number it shows, in cents.                           *)

RECURSIVE text_cents(_)
text_cents(s) ==
    IF s = <<>> THEN 0
    ELSE LET c == s[Len(s)]
             rest == text_cents(SubSeq(s, 1, Len(s) - 1))
         IN  IF c \in Range(Digit)
             THEN 10 * rest + (CHOOSE d \in 0..9 : Digit[d + 1] = c)
             ELSE rest

column_of(l) == CHOOSE k \in 1..Len(Letters) : Letters[k] = l

cell_value(c) == IF c.t = "number" THEN c.v ELSE text_cents(c.v)

\* value of <<"=", col, row, "*", col, row>> over the sheet sh, in cents
formula_value(sh, f) ==
    cell_value(sh[f[3]][column_of(f[2])]) * cell_value(sh[f[6]][column_of(f[5])])

----------------------------------------------------------------------------
(* Uploaded tables.  A header names the column as the file spells it and   *)
(* the field of the inventory row the column carries.                      *)

MaxRows == 2

raw_Code_sp == <<" ", "C", "o", "d", "e">>
raw_Warehouse_sp == <<"W", "a", "r", "e", "h", "o", "u", "s", "e", " ">>
raw_Remarks == <<"R", "e", "m", "a", "r", "k", "s">>
raw_warehouse == <<"w", "a", "r", "e", "h", "o", "u", "s", "e">>
raw_Cose == <<"C", "o", "s", "e">>
raw_Codt == <<"C", "o", "d", "t">>
raw_Qty == <<"Q", "t", "y">>

code_029813261_sp == <<" ", "0", "2", "9", "8", "1", "3", "2", "6", "1">>
code_91V2NU000001_sp == <<"9", "1", "V", "2", "N", "U", "0", "0", "0", "0", "0", "1", " ">>
code_999999 == <<"9", "9", "9", "9", "9", "9">>

Col(name, field) == [name |-> name, field |-> field]

HeaderLists == {
    \* the five names as expected
    <<Col(Warehouse, "Warehouse"), Col(Code, "Code"), Col(EngName, "EngName"),
      Col(Quantity, "Quantity"), Col(Cost, "Cost")>>,
    \* another order, blanks around two names, one more column
    <<Col(raw_Code_sp, "Code"), Col(raw_Warehouse_sp, "Warehouse"),
      Col(raw_Remarks, "extra"), Col(Quantity, "Quantity"),
      Col(EngName, "EngName"), Col(Cost, "Cost")>>,
    \* a close spelling: "warehouse"
    <<Col(raw_warehouse, "Warehouse"), Col(Code, "Code"), Col(EngName, "EngName"),
      Col(Quantity, "Quantity"), Col(Cost, "Cost")>>,
    \* "Cose" and "Codt" are equally close to Code and to Cost
    <<Col(Warehouse, "Warehouse"), Col(raw_Codt, "Code"), Col(EngName, "EngName"),
      Col(Quantity, "Quantity"), Col(raw_Cose, "Cost")>>,
    \* no Code column
    <<Col(Warehouse, "Warehouse"), Col(EngName, "EngName"),
      Col(Quantity, "Quantity"), Col(Cost, "Cost")>>,
    \* "Qty" is not close enough to Quantity
    <<Col(Warehouse, "Warehouse"), Col(Code, "Code"), Col(EngName, "EngName"),
      Col(raw_Qty, "Quantity"), Col(Cost, "Cost")>> }

Row(w, c, e, q, k) ==
    [Warehouse |-> w, Code |-> c, EngName |-> e, Quantity |-> q, Cost |-> k]

Rows ==
    [Warehouse : {"Main", "NOT FOR SALE"},
     Code : {code_029813261, code_91V2NU000001_sp, code_999999},
     EngName : {"Widget"},
     Quantity : {Num(3)},
     Cost : {Num(500000)}]
    \cup
    { Row("DONA - RGA Warehouse", code_NA029813261, "Gadget", Num(8), Num(1234567891)),
      Row("DONA - Scrap Warehouse", code_91V2NU000001, "Gadget", Num(10), Num(20000)),
      Row("INVOICED", code_999999, "Gadget", Num(10), Num(20000)),
      Row("NOT FOR SALE", code_999999, "Gadget", Num(10), Num(20000)),
      Row("not for sale", code_999999, "Gadget", Num(10), Num(20000)),
      Row("Main", code_029813261_sp, "Gadget", Num(3), Num(500000)),
      Row("Main", code_999999, "Gadget", Num(8), Num(125)),
      Row("Main", code_999999, "Gadget", NaN, Num(20000)),
      Row("Main", code_999999, "Gadget", Num(1), Text("TBD")),
      Row("Main", code_029813261, "Gadget", Num(1), Text("TBD")) }

Tables == UNION {[1..n -> Rows] : n \in 1..MaxRows}

\* the cells of the row as the header lays them out
raw_row(h, row) ==
    [k \in 1..Len(h) |-> IF h[k].field = "extra" THEN "x" ELSE row[h[k].field]]

no_upload == [headers |-> <<>>, rows |-> <<>>]

----------------------------------------------------------------------------
(* The script *)

Init ==
    /\ pc = "idle"
    /\ uploaded = no_upload
    /\ columns = <<>>
    /\ data = <<>>
    /\ col_map = <<>>
    /\ notes_col = <<>>
    /\ total_col = <<>>
    /\ row_num = 0
    /\ sheet = <<>>
    /\ table = <<>>
    /\ message = "none"
    /\ download = FALSE

\* Streamlit runs the script from the top, with fresh variables, for each
\* upload: a behaviour is one run
rerun == pc = "idle"

\* lines 11-20: read_excel returns the table
Upload ==
    /\ rerun
    /\ \E h \in HeaderLists, rows \in Tables :
           /\ uploaded' = [headers |-> h, rows |-> rows]
           /\ columns' = [k \in 1..Len(h) |-> h[k].name]
           /\ data' = [r \in 1..Len(rows) |-> raw_row(h, rows[r])]
    /\ pc' = "loaded"
    /\ col_map' = <<>>
    /\ notes_col' = <<>>
    /\ total_col' = <<>>
    /\ row_num' = 0
    /\ sheet' = <<>>
    /\ table' = <<>>
    /\ message' = "none"
    /\ download' = FALSE

\* lines 11-20 and 151-152: read_excel raises on a file it cannot read
UploadUnreadable ==
    /\ rerun
    /\ pc' = "error"
    /\ uploaded' = no_upload
    /\ columns' = <<>>
    /\ data' = <<>>
    /\ col_map' = <<>>
    /\ notes_col' = <<>>
    /\ total_col' = <<>>
    /\ row_num' = 0
    /\ sheet' = <<>>
    /\ table' = <<>>
    /\ message' = "processing"
    /\ download' = FALSE

\* lines 21-37: strip the names, match them, stop when one is missing
\* (st.stop() ends the run without reaching the except clause)
Reconcile ==
    /\ pc = "loaded"
    /\ columns' = stripped(columns)
    /\ col_map' = build_col_map(columns')
    /\ IF missing_columns(col_map')
       THEN pc' = "stopped" /\ message' = "missing"
       ELSE pc' = "reconciled" /\ message' = message
    /\ UNCHANGED <<uploaded, data, notes_col, total_col, row_num, sheet, table,
                   download>>

\* variant: the five columns taken by their matched names, then named as
\* expected
SelectColumns_by_map ==
    /\ pc = "reconciled"
    /\ LET matched == [k \in 1..Len(expected_cols) |-> col_map[expected_cols[k]]]
           five == take(columns, data, matched)
           usd == rename(expected_cols, Cost :> USDEach)
       IN  /\ columns' = add_column(usd, OriginalCost)
           /\ data' = set_column(usd, five, OriginalCost,
                          [r \in 1..Len(five) |-> cell(usd, five[r], USDEach)])
    /\ pc' = "selected"
    /\ UNCHANGED <<uploaded, col_map, notes_col, total_col, row_num, sheet, table,
                   message, download>>

\* lines 38-45: rename, keep the five columns (KeyError when one is absent),
\* Cost becomes USD Each, and Original Cost is its copy
SelectColumns ==
    /\ pc = "reconciled"
    /\ LET renamed == rename(columns, col_map)
       IN  IF has_columns(renamed, expected_cols)
           THEN LET five == take(renamed, data, expected_cols)
                    usd == rename(expected_cols, Cost :> USDEach)
                IN  /\ columns' = add_column(usd, OriginalCost)
                    /\ data' = set_column(usd, five, OriginalCost,
                                   [r \in 1..Len(five) |-> cell(usd, five[r], USDEach)])
                    /\ pc' = "selected"
                    /\ message' = message
           ELSE /\ columns' = renamed
                /\ data' = data
                /\ pc' = "error"
                /\ message' = "processing"
    /\ UNCHANGED <<uploaded, col_map, notes_col, total_col, row_num, sheet, table,
                   download>>

\* lines 54-59: the two cost overrides, then the empty accumulators
UpdateCost ==
    /\ pc = "selected"
    /\ data' = set_column(columns, data, USDEach,
                   [r \in 1..Len(data) |->
                       updated_cost(cell(columns, data[r], Code),
                                    cell(columns, data[r], USDEach))])
    /\ notes_col' = <<>>
    /\ total_col' = <<>>
    /\ pc' = "correcting"
    /\ UNCHANGED <<uploaded, columns, col_map, row_num, sheet, table, message,
                   download>>

\* variant: a row that raises is passed over with an empty note
CorrectRow_skip ==
    /\ pc = "correcting"
    /\ Len(notes_col) < Len(data)
    /\ LET row == data[Len(notes_col) + 1]
           code == cell(columns, row, Code)
           warehouse == cell(columns, row, Warehouse)
           orig_cost == cell(columns, row, OriginalCost)
           usd_each == cell(columns, row, USDEach)
       IN  /\ total_col' = Append(total_col, total_text(warehouse))
           /\ notes_col' = Append(notes_col,
                               IF row_raises(code, usd_each, orig_cost) THEN <<>>
                               ELSE note_text(code, orig_cost))
    /\ UNCHANGED <<pc, message, uploaded, columns, data, col_map, row_num, sheet,
                   table, download>>

\* lines 60-83, one iteration; an exception ends the run at lines 151-152
CorrectRow ==
    /\ pc = "correcting"
    /\ Len(notes_col) < Len(data)
    /\ LET row == data[Len(notes_col) + 1]
           code == cell(columns, row, Code)
           warehouse == cell(columns, row, Warehouse)
           orig_cost == cell(columns, row, OriginalCost)
           usd_each == cell(columns, row, USDEach)
       IN  IF row_raises(code, usd_each, orig_cost)
           THEN /\ pc' = "error"
                /\ message' = "processing"
                /\ UNCHANGED <<notes_col, total_col>>
           ELSE /\ total_col' = Append(total_col, total_text(warehouse))
                /\ notes_col' = Append(notes_col, note_text(code, orig_cost))
                /\ UNCHANGED <<pc, message>>
    /\ UNCHANGED <<uploaded, columns, data, col_map, row_num, sheet, table,
                   download>>

\* lines 85-89: the two new columns, then the seven final columns
AssignColumns ==
    /\ pc = "correcting"
    /\ Len(notes_col) = Len(data)
    /\ LET cols1 == add_column(columns, TotalUSDEach)
           rows1 == set_column(columns, data, TotalUSDEach, total_col)
           cols2 == add_column(cols1, Notes)
           rows2 == set_column(cols1, rows1, Notes, notes_col)
       IN  /\ columns' = final_cols
           /\ data' = take(cols2, rows2, final_cols)
    /\ pc' = "processed"
    /\ UNCHANGED <<uploaded, col_map, notes_col, total_col, row_num, sheet, table,
                   message, download>>

\* lines 95-113: to_excel below row 1, then the header labels
ToExcel ==
    /\ pc = "processed"
    /\ sheet' = <<header_row(columns)>> \o to_excel(columns, data)
    /\ row_num' = 0
    /\ pc' = "rendering"
    /\ UNCHANGED <<uploaded, columns, data, col_map, notes_col, total_col, table,
                   message, download>>

\* lines 116-130, one iteration
RenderRow ==
    /\ pc = "rendering"
    /\ row_num < Len(data)
    /\ LET row == data[row_num + 1]
           excel_row == row_num + 1
           qty_col == get_loc(columns, Quantity) - 1
           usd_col == get_loc(columns, USDEach) - 1
           total_col_idx == get_loc(columns, TotalUSDEach) - 1
           qty == cell(columns, row, Quantity)
       IN  IF render_raises(qty, cell(columns, row, USDEach))
           THEN /\ pc' = "error"
                /\ message' = "processing"
                /\ UNCHANGED <<sheet, row_num>>
           ELSE /\ sheet' =
                      [sheet EXCEPT ![excel_row + 1] =
                          [@ EXCEPT
                              ![qty_col + 1] = number_cell(qty.v, "center"),
                              ![usd_col + 1] =
                                  string_cell(money(cell(columns, row, USDEach)), "center"),
                              ![total_col_idx + 1] =
                                  total_cell(cell(columns, row, TotalUSDEach),
                                             qty_col, usd_col, excel_row)]]
                /\ row_num' = row_num + 1
                /\ UNCHANGED <<pc, message>>
    /\ UNCHANGED <<uploaded, columns, data, col_map, notes_col, total_col, table,
                   download>>

\* lines 132-149: the table region, then the download button
Finish ==
    /\ pc = "rendering"
    /\ row_num = Len(data)
    /\ table' = table_range(columns, data)
    /\ download' = TRUE
    /\ pc' = "done"
    /\ UNCHANGED <<uploaded, columns, data, col_map, notes_col, total_col, row_num,
                   sheet, message>>

Next ==
    \/ Upload
    \/ UploadUnreadable
    \/ Reconcile
    \/ SelectColumns
    \/ UpdateCost
    \/ CorrectRow
    \/ AssignColumns
    \/ ToExcel
    \/ RenderRow
    \/ Finish

Spec == Init /\ [][Next]_vars

----------------------------------------------------------------------------
(* Properties.  They read the run against the uploaded table: input row i  *)
(* is uploaded.rows[i], and its sheet row is sheet[i + 1].                 *)

InputRows == uploaded.rows

InputNames == {strip(uploaded.headers[k].name) : k \in 1..Len(uploaded.headers)}

\* similarity of two names is at least 0.6
Close(x, c) == 10 * 2 * matches(x, c) >= 6 * (Len(x) + Len(c))

Reconciled == pc \notin {"idle", "loaded"} /\ uploaded # no_upload

\* the row loop of lines 60-83 was reached
RowsStarted == pc \in {"selected", "correcting", "processed", "rendering", "done"}

FourSpecial ==
    {"DONA - RGA Warehouse", "DONA - Scrap Warehouse", "NOT FOR SALE", "INVOICED"}

TrimmedA(row) == strip(row.Code) \in {code_029813261, code_NA029813261}

TrimmedB(row) == strip(row.Code) = code_91V2NU000001

\* rows the correction loop has finished, rows the rendering loop has written
Corrected == 1..Len(notes_col)

Rendered == 1..row_num

\* C1: whenever every column name is close to an expected name and the five
\* expected names find five different close columns, the table ends up with
\* the expected column names and the run goes on to the rows: it does not
\* end in an error before the first row.
C1_CloseNamesProceed ==
    ( /\ Reconciled
      /\ pc # "reconciled"
      /\ \A x \in InputNames : \E c \in Range(expected_cols) : Close(x, c)
      /\ \A c \in Range(expected_cols) : \E x \in InputNames : Close(x, c)
      /\ \A c, d \in DOMAIN col_map : c # d => col_map[c] # col_map[d] )
    => /\ pc # "stopped"
       /\ DOMAIN col_map = Range(expected_cols)
       /\ has_columns(columns, <<Warehouse, Code, EngName, Quantity>>)
       /\ Cost \in Range(columns) \/ USDEach \in Range(columns)

\* C2: whenever some expected name has no column with similarity >= 0.6, the
\* run stops with the missing-columns report: no row is corrected, nothing
\* is rendered, no download is offered, and the report is not the generic
\* processing error.
C2_MissingColumnStops ==
    ( /\ Reconciled
      /\ \E c \in Range(expected_cols) : \A x \in InputNames : ~Close(x, c) )
    => /\ pc = "stopped"
       /\ message = "missing"
       /\ Cardinality(DOMAIN col_map) < 5
       /\ notes_col = <<>> /\ total_col = <<>>
       /\ sheet = <<>> /\ row_num = 0
       /\ ~download

\* the scenario of the spec: no Code-like column, four names resolved
C2_Witness ==
    /\ pc = "stopped"
    /\ DOMAIN col_map = {Warehouse, EngName, Quantity, Cost}
    /\ Len(InputRows) = 2

\* C3: every corrected row whose stripped code is "029813261" or
\* "NA029813261" has unit cost 1398.06 and the note "Compiere previously
\* showed $<original cost>".
C3_TrimmedCodeOverrideA ==
    \A i \in Corrected :
        TrimmedA(InputRows[i]) =>
            /\ cell(columns, data[i], USDEach) = Num(1398060)
            /\ notes_col[i] =
                   <<"Compiere previously showed ", money(InputRows[i].Cost)>>

\* C4: every corrected row whose stripped code is "91V2NU000001" has unit
\* cost 7752.42 and the note "Compiere is showing a cost of $<original
\* cost>; See DONA-PO-10001758", and is rendered with "$7,752.42".
C4_OverrideB ==
    /\ \A i \in Corrected :
           TrimmedB(InputRows[i]) =>
               /\ cell(columns, data[i], USDEach) = Num(7752420)
               /\ notes_col[i] =
                      <<"Compiere is showing a cost of ", money(InputRows[i].Cost),
                        "; See DONA-PO-10001758">>
    /\ \A i \in Rendered :
           TrimmedB(InputRows[i]) =>
               /\ sheet[i + 1][5] =
                      string_cell(<<"$", "7", ",", "7", "5", "2", ".", "4", "2">>, "center")
               /\ sheet[i + 1][7].v = notes_col[i]

\* a finished run with a row "91V2NU000001 " whose original cost is 500.00
C4_Witness ==
    /\ pc = "done"
    /\ \E i \in Rendered :
           /\ InputRows[i].Code = code_91V2NU000001_sp
           /\ InputRows[i].Cost = Num(500000)
           /\ notes_col[i][2] = <<"$", "5", "0", "0", ".", "0", "0">>

\* C5: every rendered row of one of the four special warehouses has the
\* text "$0.00" as its Total cell, never a formula; when its code is also
\* overridden, the row still shows the overridden unit cost and the note.
C5_SpecialWarehouseZero ==
    \A i \in Rendered :
        InputRows[i].Warehouse \in FourSpecial =>
            /\ sheet[i + 1][6] = string_cell(zero_text, "center")
            /\ InputRows[i].Code \in {code_029813261, code_NA029813261} =>
                   /\ sheet[i + 1][5].v = currency(1398060)
                   /\ sheet[i + 1][7].v # <<>>

\* a finished run with special-warehouse rows, one of them overridden, with
\* different quantities and unit costs
C5_Witness ==
    /\ pc = "done"
    /\ \E i, j \in Rendered :
           /\ InputRows[i].Warehouse = "NOT FOR SALE"
           /\ InputRows[i].Code = code_029813261
           /\ InputRows[j].Warehouse = "INVOICED"
           /\ InputRows[j].Quantity # InputRows[i].Quantity

\* C6: every rendered row of another warehouse has a formula as its Total
\* cell that names the Quantity and USD Each cells of its own sheet row,
\* and the formula's value over the sheet is quantity x unit cost
\* (cents x 10 = quantity x mills).
C6_FormulaIsQuantityTimesCost ==
    \A i \in Rendered :
        InputRows[i].Warehouse \notin FourSpecial =>
            /\ sheet[i + 1][6].t = "formula"
            /\ sheet[i + 1][6].v = <<"=", "D", i + 1, "*", "E", i + 1>>
            /\ sheet[1][4].v = Quantity /\ sheet[1][5].v = USDEach
            /\ 10 * formula_value(sheet, sheet[i + 1][6].v) =
                   cell(columns, data[i], Quantity).v * cell(columns, data[i], USDEach).v

\* C7: the download is offered only when the names were reconciled and every
\* row was corrected and rendered without an exception; a run that raised
\* offers nothing, and it never goes on after the exception.
C7_Offered ==
    /\ download =>
           /\ pc = "done" /\ message = "none"
           /\ Cardinality(DOMAIN col_map) = 5
           /\ Len(notes_col) = Len(InputRows) /\ Len(total_col) = Len(InputRows)
           /\ row_num = Len(InputRows) /\ Len(sheet) = Len(InputRows) + 1
           /\ \A i \in 1..Len(InputRows) :
                  /\ InputRows[i].Cost.t = "num"
                  /\ InputRows[i].Quantity.t = "num"
                  /\ sheet[i + 1][5].t = "string"
    /\ message # "none" => ~download /\ pc \in {"stopped", "error"}
    /\ pc \in {"stopped", "error"} => message # "none"

C7_AllOrNothing ==
    /\ []C7_Offered
    /\ [][pc \notin {"stopped", "error"}]_vars

\* the second row raised in the rendering loop after the first was written
C7_Witness ==
    /\ pc = "error"
    /\ row_num = 1
    /\ sheet[2][6].t = "formula"
    /\ Len(InputRows) = 2
    /\ ~download

\* the header of the upload whose stripped name is x
HeaderOf(x) ==
    CHOOSE k \in 1..Len(uploaded.headers) : strip(uploaded.headers[k].name) = x

\* the selection of lines 38-42 went through: only then is there a column
\* USD Each
Selected == USDEach \in Range(columns)

\* C8: the row loop is reached only after the selection, and then the five
\* expected names are resolved to five different columns of the upload and
\* each expected column holds the cells of the column it was resolved to;
\* in a run that does not get there, no row is corrected or rendered.
C8_ResolvedBeforeRows ==
    /\ RowsStarted => Selected
    /\ Selected =>
           /\ DOMAIN col_map = Range(expected_cols)
           /\ \A c, d \in DOMAIN col_map : c # d => col_map[c] # col_map[d]
           /\ \A k \in 1..4 : \A r \in 1..Len(data) :
                  cell(columns, data[r], expected_cols[k]) =
                      raw_row(uploaded.headers, InputRows[r])[HeaderOf(col_map[expected_cols[k]])]
    /\ ~Selected =>
           /\ notes_col = <<>> /\ total_col = <<>>
           /\ sheet = <<>> /\ ~download

\* Code and Cost resolved to the same column, and the table was rejected
C8_Witness ==
    /\ pc = "error"
    /\ DOMAIN col_map = Range(expected_cols)
    /\ col_map[Code] = col_map[Cost]
    /\ notes_col = <<>>
    /\ Len(InputRows) = 2

\* C9: every row whose stripped code matches neither rule keeps its original
\* cost as unit cost and gets the empty note; it is rendered with that cost
\* as currency text and an empty Notes cell, also in a special warehouse.
C9_OtherRowsUntouched ==
    /\ \A i \in Corrected :
           ~TrimmedA(InputRows[i]) /\ ~TrimmedB(InputRows[i]) =>
               /\ cell(columns, data[i], USDEach) = InputRows[i].Cost
               /\ notes_col[i] = <<>>
    /\ \A i \in Rendered :
           ~TrimmedA(InputRows[i]) /\ ~TrimmedB(InputRows[i]) =>
               /\ sheet[i + 1][5] = string_cell(money(InputRows[i].Cost), "center")
               /\ sheet[i + 1][7] = string_cell(<<>>, "none")

\* the scenario of the spec: NOT FOR SALE, 999999, 10, 20.00
C9_Witness ==
    /\ pc = "done"
    /\ \E i \in Rendered :
           /\ InputRows[i] = Row("NOT FOR SALE", code_999999, "Gadget", Num(10), Num(20000))
           /\ sheet[i + 1][5].v = <<"$", "2", "0", ".", "0", "0">>
           /\ sheet[i + 1][6].v = <<"$", "0", ".", "0", "0">>
           /\ sheet[i + 1][7].v = <<>>

\* the note a row is due, by its code as it stands
NoteDue(row) ==
    IF row.Code \in {code_029813261, code_NA029813261} THEN note_previously
    ELSE IF strip(row.Code) = code_91V2NU000001 THEN note_showing
    ELSE ""

\* C10: a finished run has one sheet row per input row, in the input order:
\* sheet row i + 1 holds the Warehouse, Code, Eng Name and Quantity of input
\* row i, the note and the total of input row i, and a formula that names
\* sheet row i + 1; the table region spans just these rows.
C10_RowsInOrder ==
    pc = "done" =>
        /\ Len(sheet) = Len(InputRows) + 1
        /\ table = <<"A", 1, "G", Len(InputRows) + 1>>
        /\ \A i \in 1..Len(InputRows) :
               /\ sheet[i + 1][1].v = InputRows[i].Warehouse
               /\ sheet[i + 1][2].v = InputRows[i].Code
               /\ sheet[i + 1][3].v = InputRows[i].EngName
               /\ sheet[i + 1][4] = number_cell(InputRows[i].Quantity.v, "center")
               /\ IF NoteDue(InputRows[i]) = "" THEN sheet[i + 1][7].v = <<>>
                  ELSE sheet[i + 1][7].v[1] = NoteDue(InputRows[i])
               /\ IF InputRows[i].Warehouse \in FourSpecial
                  THEN sheet[i + 1][6].t = "string"
                  ELSE /\ sheet[i + 1][6].t = "formula"
                       /\ sheet[i + 1][6].v[3] = i + 1
                       /\ sheet[i + 1][6].v[6] = i + 1

\* two different rows, the first with a note and a formula, the second with
\* neither
C10_Witness ==
    /\ pc = "done"
    /\ Len(InputRows) = 2
    /\ InputRows[1].Warehouse = "Main" /\ InputRows[1].Code = code_029813261
    /\ InputRows[2].Warehouse = "NOT FOR SALE" /\ InputRows[2].Code = code_999999
    /\ uploaded.headers[1].name = raw_Code_sp

====
